---- MODULE Spec2Model ----
(***************************************************************************)
(* Model of FraudDetectionSystem (src/main.py): process_transaction and   *)
(* the review chat between fraud_manager and react_agent.                  *)
(*                                                                         *)
(* Text is modelled as a sequence of words; a word keeps its letter case,  *)
(* str.upper() maps every word to its upper-case form, and the substring   *)
(* test `kw in content` is the presence of the word kw.  An optional value *)
(* (Python None or a value) is a sequence of length 0 or 1.                *)
(***************************************************************************)
EXTENDS Integers, Sequences, FiniteSets, TLC

\* ------------------------------------------------------------------ bounds
\* Largest number of messages the fraud_manager/react_agent history holds.
MaxHistory == 4

\* The replies react_agent gives in one chat before it ends the chat itself:
\* the agent is built without max_consecutive_auto_reply, so the agent
\* class's default of 100 applies; the model scales it down.  Within
\* MaxHistory messages the limit is never reached.
MaxAutoReply == 3

\* ------------------------------------------------------------------ text
None == <<>>
Some(v) == <<v>>

UpperWord(w) ==
    CASE w = "genehmigen" -> "GENEHMIGEN"
      [] w = "ablehnen"   -> "ABLEHNEN"
      [] w = "beenden"    -> "BEENDEN"
      [] w = "exit"       -> "EXIT"
      [] w = "terminate"  -> "TERMINATE"
      [] w = "Bitte"      -> "BITTE"
      [] w = "Frage"      -> "FRAGE"
      [] w = "Antwort"    -> "ANTWORT"
      [] w = "oder"       -> "ODER"
      [] w = "verdaechtig" -> "VERDAECHTIG"
      [] w = "Transaktion" -> "TRANSAKTION"
      [] w = "Erklaerung" -> "ERKLAERUNG"
      [] w = "profile"    -> "PROFILE"
      [] w = "transactions" -> "TRANSACTIONS"
      [] w = "cases"      -> "CASES"
      [] OTHER            -> w

\* str.upper()
Upper(text) == [i \in DOMAIN text |-> UpperWord(text[i])]

\* kw in text
Contains(kw, text) == \E i \in DOMAIN text : text[i] = kw

\* str.strip(): leading and trailing whitespace removed
IsSpace(w) == w \in {" ", "\n"}

RECURSIVE LStrip(_)
LStrip(text) ==
    IF text # <<>> /\ IsSpace(Head(text)) THEN LStrip(Tail(text)) ELSE text

RECURSIVE RStrip(_)
RStrip(text) ==
    IF text # <<>> /\ IsSpace(text[Len(text)])
    THEN RStrip(SubSeq(text, 1, Len(text) - 1))
    ELSE text

Strip(text) == RStrip(LStrip(text))

\* ------------------------------------------------------------------ inputs
Transactions == [is_realtime : BOOLEAN]

\* Replies of ml_assessment_agent: text that is no JSON, or a JSON object.
\* probability and threshold are in tenths (12 is 1.2).
MLReplies ==
    { [json |-> FALSE, probability |-> 0, threshold |-> 0, is_fraud |-> FALSE],
      [json |-> TRUE, probability |-> 2, threshold |-> 5, is_fraud |-> FALSE],
      [json |-> TRUE, probability |-> 7, threshold |-> 5, is_fraud |-> TRUE],
      [json |-> TRUE, probability |-> 12, threshold |-> 5, is_fraud |-> TRUE],
      [json |-> TRUE, probability |-> 2, threshold |-> 5, is_fraud |-> TRUE] }

RuleReplies ==
    { [json |-> FALSE, is_flagged |-> FALSE],
      [json |-> TRUE, is_flagged |-> FALSE],
      [json |-> TRUE, is_flagged |-> TRUE] }

\* Replies of coordinator_agent: free text.
CoordinatorReplies ==
    { <<"approve_transaction">>,
      <<" ", "approve_transaction", "\n">>,
      <<"decision_agent">>,
      <<"generate_explanation">>,
      <<"generate_explanation", ".">>,
      <<"Approve_transaction">> }

\* Replies of decision_agent: no JSON, or a JSON object whose keys may be
\* missing (None); confidence in tenths.
DecisionReplies ==
    { [json |-> FALSE, decision |-> None, confidence |-> None, reasoning |-> None],
      [json |-> TRUE, decision |-> Some("approved"), confidence |-> Some(9),
       reasoning |-> Some(<<"ok">>)],
      [json |-> TRUE, decision |-> Some("declined"), confidence |-> Some(9),
       reasoning |-> Some(<<"verdaechtig">>)],
      [json |-> TRUE, decision |-> Some("review"), confidence |-> Some(9),
       reasoning |-> Some(<<"unklar">>)],
      [json |-> TRUE, decision |-> Some("approved"), confidence |-> Some(15),
       reasoning |-> Some(<<"ok">>)],
      [json |-> TRUE, decision |-> Some("declined"), confidence |-> Some(9),
       reasoning |-> None],
      [json |-> TRUE, decision |-> None, confidence |-> Some(9),
       reasoning |-> Some(<<"ok">>)] }

\* Replies of explanation_agent: free text.
ExplanationReplies ==
    { <<"verdaechtig">>, <<"Bitte", "ablehnen">> }

\* Replies of react_agent in the review chat: text, or a request for tool
\* calls (content None).
ToolCall(name, arg) == [tool_name |-> name, argument |-> arg]

ReactReplies ==
    { [content |-> Some(<<"Antwort">>), tool_calls |-> <<>>],
      [content |-> Some(<<"Antwort", "beenden">>), tool_calls |-> <<>>],
      [content |-> None, tool_calls |-> <<ToolCall("get_similar_fraud_cases", "f")>>],
      [content |-> None,
       tool_calls |-> <<ToolCall("get_user_profile", "A"),
                        ToolCall("get_user_profile", "A"),
                        ToolCall("get_user_transaction_history", "A")>>] }

\* Lines the human types at the fraud_manager prompt (<<>> is the enter key).
HumanInputs ==
    { <<>>,
      <<"exit">>,
      <<"Frage">>,
      <<"Bitte", "genehmigen">>,
      <<"ABLEHNEN", "BEENDEN">>,
      <<"beenden">>,
      <<"ablehnen", "genehmigen">> }

\* ------------------------------------------------------------------ state
VARIABLES
    workflow,         \* the public method that is running or ran last
    pc,               \* position of the running call
    transaction,      \* transaction_data
    chat_results,     \* replies of the two assessment chats
    ml_assessment,    \* json.loads of the ML reply (None before)
    rule_assessment,  \* json.loads of the rule reply (None before)
    next_step,        \* stripped coordinator answer (None before)
    decision_result,  \* reply of the decision chat (None before)
    explanation,      \* explanation_agent's text (None before)
    chat_messages,    \* fraud_manager's history with react_agent; it outlives
                      \* a call (clear_history=False)
    session_start,    \* index of this call's seed in chat_messages, 0 if none
    human_lines,      \* the lines the human typed in this call's review chat
    result,           \* what the call returned or raised
    calls             \* collaborator and tool invocations of this call

vars == <<workflow, pc, transaction, chat_results, ml_assessment, rule_assessment,
          next_step, decision_result, explanation, chat_messages, session_start,
          human_lines, result, calls>>

NoResult ==
    [kind |-> "none", fields |-> {}, final_decision |-> "", explanation |-> None,
     process_complete |-> FALSE, error |-> ""]

Returned(fields, final_decision, expl, complete, error) ==
    [kind |-> "return", fields |-> fields, final_decision |-> final_decision,
     explanation |-> expl, process_complete |-> complete, error |-> error]

Raised(exception) ==
    [kind |-> "raise", fields |-> {}, final_decision |-> "", explanation |-> None,
     process_complete |-> FALSE, error |-> exception]

NoCalls ==
    [ml |-> 0, rule |-> 0, coordinator |-> 0, decision |-> 0, explanation |-> 0,
     session |-> 0, turns |-> 0, tools |-> 0]

Called(stage) == [calls EXCEPT ![stage] = @ + 1]

Init ==
    /\ workflow = "none"
    /\ pc = "idle"
    /\ transaction = [is_realtime |-> FALSE]
    /\ chat_results = [ml |-> None, rule |-> None]
    /\ ml_assessment = None
    /\ rule_assessment = None
    /\ next_step = None
    /\ decision_result = None
    /\ explanation = None
    /\ chat_messages = <<>>
    /\ session_start = 0
    /\ human_lines = <<>>
    /\ result = NoResult
    /\ calls = NoCalls

\* ------------------------------------------------------------------ process_transaction
\* A call of process_transaction(transaction_data) begins.
Start(tx) ==
    /\ pc \in {"idle", "done"}
    /\ workflow' = "process_transaction"
    /\ pc' = "ml_chat"
    /\ transaction' = tx
    /\ chat_results' = [ml |-> None, rule |-> None]
    /\ ml_assessment' = None
    /\ rule_assessment' = None
    /\ next_step' = None
    /\ decision_result' = None
    /\ explanation' = None
    /\ session_start' = 0
    /\ human_lines' = <<>>
    /\ result' = NoResult
    /\ calls' = NoCalls
    /\ UNCHANGED chat_messages

\* initiate_chats runs its chats one after the other: first the ML chat.
MLChat(reply) ==
    /\ pc = "ml_chat"
    /\ chat_results' = [chat_results EXCEPT !.ml = Some(reply)]
    /\ calls' = Called("ml")
    /\ pc' = "rule_chat"
    /\ UNCHANGED <<workflow, transaction, ml_assessment, rule_assessment,
                   next_step, decision_result, explanation, chat_messages,
                   session_start, human_lines, result>>

RuleChat(reply) ==
    /\ pc = "rule_chat"
    /\ chat_results' = [chat_results EXCEPT !.rule = Some(reply)]
    /\ calls' = Called("rule")
    /\ pc' = "parse"
    /\ UNCHANGED <<workflow, transaction, ml_assessment, rule_assessment,
                   next_step, decision_result, explanation, chat_messages,
                   session_start, human_lines, result>>

\* json.loads: the reply as a value, or JSONDecodeError.
JsonLoads(reply) == IF reply.json THEN Some(reply) ELSE None

\* A parse that goes on to the coordinator although the rule reply is no JSON.
ParseAssessmentsLenient ==
    /\ pc = "parse"
    /\ LET ml == JsonLoads(chat_results.ml[1])
           rule == JsonLoads(chat_results.rule[1])
       IN  IF ml = None
           THEN /\ result' = Raised("JSONDecodeError")
                /\ pc' = "done"
                /\ UNCHANGED <<ml_assessment, rule_assessment>>
           ELSE /\ ml_assessment' = ml
                /\ rule_assessment' = rule
                /\ pc' = "coordinate"
                /\ UNCHANGED result
    /\ UNCHANGED <<workflow, transaction, chat_results, next_step,
                   decision_result, explanation, chat_messages, session_start,
                   human_lines, calls>>

\* The two json.loads of the assessment replies, ML first.
ParseAssessments ==
    /\ pc = "parse"
    /\ LET ml == JsonLoads(chat_results.ml[1])
           rule == JsonLoads(chat_results.rule[1])
       IN  IF ml = None
           THEN /\ result' = Raised("JSONDecodeError")
                /\ pc' = "done"
                /\ UNCHANGED <<ml_assessment, rule_assessment>>
           ELSE IF rule = None
           THEN /\ result' = Raised("JSONDecodeError")
                /\ pc' = "done"
                /\ ml_assessment' = ml
                /\ UNCHANGED rule_assessment
           ELSE /\ ml_assessment' = ml
                /\ rule_assessment' = rule
                /\ pc' = "coordinate"
                /\ UNCHANGED result
    /\ UNCHANGED <<workflow, transaction, chat_results, next_step,
                   decision_result, explanation, chat_messages, session_start,
                   human_lines, calls>>

\* The coordinator chat and next_step = <last message>.strip().
Coordinate(reply) ==
    /\ pc = "coordinate"
    /\ next_step' = Some(Strip(reply))
    /\ calls' = Called("coordinator")
    /\ pc' = "route"
    /\ UNCHANGED <<workflow, transaction, chat_results, ml_assessment,
                   rule_assessment, decision_result, explanation,
                   chat_messages, session_start, human_lines, result>>

\* The branch the if/elif chain on next_step takes.
RouteOf(step) ==
    IF step = <<"approve_transaction">> THEN "approve_transaction"
    ELSE IF step = <<"decision_agent">> THEN "decision_agent"
    ELSE IF step = <<"generate_explanation">> THEN "generate_explanation"
    ELSE "fallback"

\* if next_step == "approve_transaction": return the approved result.
RouteApprove ==
    /\ pc = "route"
    /\ RouteOf(next_step[1]) = "approve_transaction"
    /\ result' = Returned({"final_decision", "explanation", "process_complete"},
                          "approved", None, TRUE, "")
    /\ pc' = "done"
    /\ UNCHANGED <<workflow, transaction, chat_results, ml_assessment,
                   rule_assessment, next_step, decision_result, explanation,
                   chat_messages, session_start, human_lines, calls>>

\* elif next_step == "decision_agent"
RouteDecision ==
    /\ pc = "route"
    /\ RouteOf(next_step[1]) = "decision_agent"
    /\ pc' = "decide"
    /\ UNCHANGED <<workflow, transaction, chat_results, ml_assessment,
                   rule_assessment, next_step, decision_result, explanation,
                   chat_messages, session_start, human_lines, result, calls>>

\* elif next_step == "generate_explanation"
RouteExplanation ==
    /\ pc = "route"
    /\ RouteOf(next_step[1]) = "generate_explanation"
    /\ pc' = "explain"
    /\ UNCHANGED <<workflow, transaction, chat_results, ml_assessment,
                   rule_assessment, next_step, decision_result, explanation,
                   chat_messages, session_start, human_lines, result, calls>>

\* else: the fallback for an unexpected coordinator answer.
RouteFallback ==
    /\ pc = "route"
    /\ RouteOf(next_step[1]) = "fallback"
    /\ result' = Returned({"error", "process_complete"}, "", None, FALSE,
                          "Unerwartete Koordinator-Antwort")
    /\ pc' = "done"
    /\ UNCHANGED <<workflow, transaction, chat_results, ml_assessment,
                   rule_assessment, next_step, decision_result, explanation,
                   chat_messages, session_start, human_lines, calls>>

\* A decision branch that reports every parsed reply as approved.
DecisionResultDefaultApproved(reply) ==
    IF JsonLoads(reply) = None THEN Raised("JSONDecodeError")
    ELSE IF reply.decision = None THEN Raised("KeyError")
    ELSE IF reply.reasoning = None THEN Raised("KeyError")
    ELSE Returned({"final_decision", "explanation", "process_complete"},
                  "approved", reply.reasoning, TRUE, "")

\* What the decision branch returns for a reply of decision_agent.
DecisionResult(reply) ==
    IF JsonLoads(reply) = None THEN Raised("JSONDecodeError")
    ELSE IF reply.decision = None THEN Raised("KeyError")
    ELSE IF reply.reasoning = None THEN Raised("KeyError")
    ELSE Returned({"final_decision", "explanation", "process_complete"},
                  reply.decision[1], reply.reasoning, TRUE, "")

\* A decision branch that does not return: the call goes on to the
\* explanation branch.
DecideFallsThrough(reply) ==
    /\ pc = "decide"
    /\ calls' = Called("decision")
    /\ decision_result' = Some(reply)
    /\ pc' = "explain"
    /\ UNCHANGED <<workflow, transaction, chat_results, ml_assessment,
                   rule_assessment, next_step, explanation, chat_messages,
                   session_start, human_lines, result>>

\* The decision chat, json.loads of its reply and the returned dict.
Decide(reply) ==
    /\ pc = "decide"
    /\ calls' = Called("decision")
    /\ decision_result' = Some(reply)
    /\ result' = DecisionResult(reply)
    /\ pc' = "done"
    /\ UNCHANGED <<workflow, transaction, chat_results, ml_assessment,
                   rule_assessment, next_step, explanation, chat_messages,
                   session_start, human_lines>>

\* The explanation chat; explanation = its last message.
Explain(reply) ==
    /\ pc = "explain"
    /\ calls' = Called("explanation")
    /\ explanation' = Some(reply)
    /\ pc' = "seed"
    /\ UNCHANGED <<workflow, transaction, chat_results, ml_assessment,
                   rule_assessment, next_step, decision_result, chat_messages,
                   session_start, human_lines, result>>

\* ------------------------------------------------------------------ review chat
\* A message of the history: who wrote it, its content (None for a request
\* of tool calls), the tool calls it asks for and the tool results it carries.
Message(author, content, tool_calls, tool_responses) ==
    [author |-> author, content |-> content, tool_calls |-> tool_calls,
     tool_responses |-> tool_responses]

\* initial_message without the explanation text.
SeedContentWithoutExplanation(expl) ==
    <<"Transaktion", "Erklaerung", "GENEHMIGEN", "oder", "ABLEHNEN">>

\* initial_message: the framing text around the explanation.
SeedContent(expl) ==
    <<"Transaktion", "Erklaerung">> \o expl \o <<"GENEHMIGEN", "oder", "ABLEHNEN">>

\* The lookup tools registered for execution with fraud_manager.
ToolResult(call) ==
    CASE call.tool_name = "get_user_transaction_history" -> <<"transactions">>
      [] call.tool_name = "get_user_profile" -> <<"profile", call.argument>>
      [] call.tool_name = "get_similar_fraud_cases" -> <<"cases">>

\* The results of a batch of tool calls, last call first.
ToolResultsReversed(tool_calls) ==
    [i \in DOMAIN tool_calls |-> ToolResult(tool_calls[Len(tool_calls) + 1 - i])]

\* The results of a batch of tool calls, in call order.
ToolResults(tool_calls) == [i \in DOMAIN tool_calls |-> ToolResult(tool_calls[i])]

RECURSIVE Flatten(_)
Flatten(texts) ==
    IF texts = <<>> THEN <<>> ELSE Head(texts) \o Flatten(Tail(texts))

\* fraud_manager's is_termination_msg
IsTerminationMsg(message) ==
    /\ message.content # None
    /\ message.content[1] # <<>>
    /\ \E cmd \in {"BEENDEN", "TERMINATE", "EXIT"} :
           Contains(cmd, Upper(message.content[1]))

\* initiate_chats of the review chat: fraud_manager sends initial_message to
\* react_agent; the history is kept (clear_history=False).
StartSession ==
    /\ pc = "seed"
    /\ Len(chat_messages) + 2 <= MaxHistory
    /\ chat_messages' = Append(chat_messages,
           Message("seed", Some(SeedContent(explanation[1])), <<>>, <<>>))
    /\ session_start' = Len(chat_messages) + 1
    /\ calls' = Called("session")
    /\ pc' = "react"
    /\ UNCHANGED <<workflow, transaction, chat_results, ml_assessment,
                   rule_assessment, next_step, decision_result, explanation,
                   human_lines, result>>

\* react_agent answers and fraud_manager receives the answer.
ReactReply(reply) ==
    /\ pc = "react"
    /\ chat_messages' = Append(chat_messages,
           Message("react", reply.content, reply.tool_calls, <<>>))
    /\ calls' = Called("turns")
    /\ pc' = "human"
    /\ UNCHANGED <<workflow, transaction, chat_results, ml_assessment,
                   rule_assessment, next_step, decision_result, explanation,
                   session_start, human_lines, result>>

\* human_input_mode="ALWAYS": an empty line on a termination message counts
\* as "exit".
HumanReply(line, received) ==
    IF line # <<>> \/ ~IsTerminationMsg(received) THEN line ELSE <<"exit">>

\* What fraud_manager sends back for a reply that does not end the chat: the
\* typed line (pending tool calls are answered "USER INTERRUPTED"), or on an
\* empty line the results of the requested tools, or the empty auto-reply.
Response(reply, received) ==
    IF reply # <<>>
    THEN Message("human", Some(reply), <<>>,
                 [i \in DOMAIN received.tool_calls |-> <<"USER", "INTERRUPTED">>])
    ELSE IF received.tool_calls # <<>>
    THEN Message("tool", Some(Flatten(ToolResults(received.tool_calls))), <<>>,
                 ToolResults(received.tool_calls))
    ELSE Message("auto", Some(<<>>), <<>>, <<>>)

\* fraud_manager asks the human for a line and ends the chat or replies.
HumanInput(line) ==
    /\ pc = "human"
    /\ LET received == chat_messages[Len(chat_messages)]
           reply == HumanReply(line, received)
       IN  IF reply = <<"exit">>
           THEN /\ pc' = "extract"
                /\ UNCHANGED <<chat_messages, calls>>
           ELSE /\ Len(chat_messages) + 2 <= MaxHistory
                /\ chat_messages' = Append(chat_messages, Response(reply, received))
                /\ calls' = IF reply = <<>>
                            THEN [calls EXCEPT !.tools = @ + Len(received.tool_calls)]
                            ELSE calls
                /\ pc' = "react"
    /\ human_lines' = Append(human_lines, line)
    /\ UNCHANGED <<workflow, transaction, chat_results, ml_assessment,
                   rule_assessment, next_step, decision_result, explanation,
                   session_start, result>>

\* A scan that tests the decline keyword before the approval keyword.
RECURSIVE ScanDecisionDeclineFirst(_)
ScanDecisionDeclineFirst(history) ==
    IF history = <<>> THEN "undecided"
    ELSE IF Head(history).content = None THEN "AttributeError"
    ELSE IF Contains("ABLEHNEN", Upper(Head(history).content[1])) THEN "declined"
    ELSE IF Contains("GENEHMIGEN", Upper(Head(history).content[1])) THEN "approved"
    ELSE ScanDecisionDeclineFirst(Tail(history))

\* The loop over chat_result[0].chat_history: the first message whose
\* upper-cased content holds GENEHMIGEN or ABLEHNEN decides; a message whose
\* content is None makes .upper() fail.
RECURSIVE ScanDecision(_)
ScanDecision(history) ==
    IF history = <<>> THEN "undecided"
    ELSE IF Head(history).content = None THEN "AttributeError"
    ELSE IF Contains("GENEHMIGEN", Upper(Head(history).content[1])) THEN "approved"
    ELSE IF Contains("ABLEHNEN", Upper(Head(history).content[1])) THEN "declined"
    ELSE ScanDecision(Tail(history))

\* The dict the explanation branch returns.
SessionResult(final_decision, expl) ==
    IF final_decision = "AttributeError" THEN Raised("AttributeError")
    ELSE Returned({"final_decision", "explanation", "process_complete"},
                  final_decision, expl, final_decision # "undecided", "")

\* The chat has ended: extract the decision and return.
ExtractDecision ==
    /\ pc = "extract"
    /\ workflow = "process_transaction"
    /\ result' = SessionResult(ScanDecision(chat_messages), explanation)
    /\ pc' = "done"
    /\ UNCHANGED <<workflow, transaction, chat_results, ml_assessment,
                   rule_assessment, next_step, decision_result, explanation,
                   chat_messages, session_start, human_lines, calls>>

\* A collaborator chat raises (timeout, API error): no try/except surrounds
\* initiate_chats or initiate_chat, so the exception leaves the call.
CollaboratorFails ==
    /\ pc \in {"ml_chat", "rule_chat", "coordinate", "decide", "explain", "react",
               "i_ml_chat", "i_rule_chat", "i_explain"}
    /\ result' = Raised("CollaboratorError")
    /\ pc' = "done"
    /\ UNCHANGED <<workflow, transaction, chat_results, ml_assessment,
                   rule_assessment, next_step, decision_result, explanation,
                   chat_messages, session_start, human_lines, calls>>

\* ------------------------------------------------------------------ interactive_fraud_manager_session
\* A call of interactive_fraud_manager_session(transaction_data) begins.
StartInteractive(tx) ==
    /\ pc \in {"idle", "done"}
    /\ workflow' = "interactive"
    /\ pc' = "i_ml_chat"
    /\ transaction' = tx
    /\ chat_results' = [ml |-> None, rule |-> None]
    /\ ml_assessment' = None
    /\ rule_assessment' = None
    /\ next_step' = None
    /\ decision_result' = None
    /\ explanation' = None
    /\ session_start' = 0
    /\ human_lines' = <<>>
    /\ result' = NoResult
    /\ calls' = NoCalls
    /\ UNCHANGED chat_messages

\* auto_proxy's chat with ml_assessment_agent; reply is the last message of
\* its history.
InteractiveMLChat(reply) ==
    /\ pc = "i_ml_chat"
    /\ chat_results' = [chat_results EXCEPT !.ml = Some(reply)]
    /\ calls' = Called("ml")
    /\ pc' = "i_rule_chat"
    /\ UNCHANGED <<workflow, transaction, ml_assessment, rule_assessment,
                   next_step, decision_result, explanation, chat_messages,
                   session_start, human_lines, result>>

\* auto_proxy's chat with rule_assessment_agent.
InteractiveRuleChat(reply) ==
    /\ pc = "i_rule_chat"
    /\ chat_results' = [chat_results EXCEPT !.rule = Some(reply)]
    /\ calls' = Called("rule")
    /\ pc' = "i_parse"
    /\ UNCHANGED <<workflow, transaction, ml_assessment, rule_assessment,
                   next_step, decision_result, explanation, chat_messages,
                   session_start, human_lines, result>>

\* The two json.loads; the explanation chat follows without any routing.
InteractiveParse ==
    /\ pc = "i_parse"
    /\ LET ml == JsonLoads(chat_results.ml[1])
           rule == JsonLoads(chat_results.rule[1])
       IN  IF ml = None
           THEN /\ result' = Raised("JSONDecodeError")
                /\ pc' = "done"
                /\ UNCHANGED <<ml_assessment, rule_assessment>>
           ELSE IF rule = None
           THEN /\ result' = Raised("JSONDecodeError")
                /\ pc' = "done"
                /\ ml_assessment' = ml
                /\ UNCHANGED rule_assessment
           ELSE /\ ml_assessment' = ml
                /\ rule_assessment' = rule
                /\ pc' = "i_explain"
                /\ UNCHANGED result
    /\ UNCHANGED <<workflow, transaction, chat_results, next_step,
                   decision_result, explanation, chat_messages, session_start,
                   human_lines, calls>>

\* auto_proxy's chat with explanation_agent.
InteractiveExplain(reply) ==
    /\ pc = "i_explain"
    /\ calls' = Called("explanation")
    /\ explanation' = Some(reply)
    /\ pc' = "i_seed"
    /\ UNCHANGED <<workflow, transaction, chat_results, ml_assessment,
                   rule_assessment, next_step, decision_result, chat_messages,
                   session_start, human_lines, result>>

\* initial_message of the interactive session.
InteractiveSeedContent(expl) ==
    <<"Fraud-Alert", "Erklaerung">> \o expl
        \o <<"GENEHMIGEN", "oder", "ABLEHNEN", "BEENDEN">>

\* fraud_manager.initiate_chat(react_agent, ...): clear_history defaults to
\* True, so the history starts anew with the seed.
InteractiveStartSession ==
    /\ pc = "i_seed"
    /\ chat_messages' =
           <<Message("seed", Some(InteractiveSeedContent(explanation[1])), <<>>, <<>>)>>
    /\ session_start' = 1
    /\ calls' = Called("session")
    /\ pc' = "react"
    /\ UNCHANGED <<workflow, transaction, chat_results, ml_assessment,
                   rule_assessment, next_step, decision_result, explanation,
                   human_lines, result>>

\* self.fraud_manager.chat_history: the constructor sets no such attribute,
\* so the agent class of the installed autogen decides whether the lookup
\* fails or yields the messages exchanged with react_agent.
ChatHistoryLookups == {"missing", "messages"}

\* What interactive_fraud_manager_session returns (a str) or raises.
InteractiveResult(lookup, history) ==
    IF lookup = "missing" THEN Raised("AttributeError")
    ELSE IF ScanDecision(history) = "AttributeError" THEN Raised("AttributeError")
    ELSE Returned({}, ScanDecision(history), None, FALSE, "")

\* The chat has ended: extract the decision and return it.
InteractiveExtract(lookup) ==
    /\ pc = "extract"
    /\ workflow = "interactive"
    /\ result' = InteractiveResult(lookup, chat_messages)
    /\ pc' = "done"
    /\ UNCHANGED <<workflow, transaction, chat_results, ml_assessment,
                   rule_assessment, next_step, decision_result, explanation,
                   chat_messages, session_start, human_lines, calls>>

\* ------------------------------------------------------------------ specification
Next ==
    \/ \E tx \in Transactions : Start(tx)
    \/ \E reply \in MLReplies : MLChat(reply)
    \/ \E reply \in RuleReplies : RuleChat(reply)
    \/ ParseAssessments
    \/ \E reply \in CoordinatorReplies : Coordinate(reply)
    \/ RouteApprove
    \/ RouteDecision
    \/ RouteExplanation
    \/ RouteFallback
    \/ \E reply \in DecisionReplies : Decide(reply)
    \/ \E reply \in ExplanationReplies : Explain(reply)
    \/ StartSession
    \/ \E reply \in ReactReplies : ReactReply(reply)
    \/ \E line \in HumanInputs : HumanInput(line)
    \/ ExtractDecision
    \/ CollaboratorFails
    \/ \E tx \in Transactions : StartInteractive(tx)
    \/ \E reply \in MLReplies : InteractiveMLChat(reply)
    \/ \E reply \in RuleReplies : InteractiveRuleChat(reply)
    \/ InteractiveParse
    \/ \E reply \in ExplanationReplies : InteractiveExplain(reply)
    \/ InteractiveStartSession
    \/ \E lookup \in ChatHistoryLookups : InteractiveExtract(lookup)

Spec == Init /\ [][Next]_vars

\* ------------------------------------------------------------------ one call, run to its end
\* The review chat of a single call of process_transaction without the cap
\* on the length of the history: what bounds it is react_agent's own limit.
LiveStart(tx) ==
    /\ pc = "idle"
    /\ Start(tx)

\* react_agent (human_input_mode NEVER) ends the chat instead of replying
\* once it has replied MaxAutoReply times, or when it receives the text
\* TERMINATE (its default is_termination_msg).
ReactEndsChat ==
    \/ calls.turns >= MaxAutoReply
    \/ chat_messages[Len(chat_messages)].content = Some(<<"TERMINATE">>)

LiveReactReply(reply) ==
    /\ pc = "react"
    /\ ~ReactEndsChat
    /\ chat_messages' = Append(chat_messages,
           Message("react", reply.content, reply.tool_calls, <<>>))
    /\ calls' = Called("turns")
    /\ pc' = "human"
    /\ UNCHANGED <<workflow, transaction, chat_results, ml_assessment,
                   rule_assessment, next_step, decision_result, explanation,
                   session_start, human_lines, result>>

ReactGivesUp ==
    /\ pc = "react"
    /\ ReactEndsChat
    /\ pc' = "extract"
    /\ UNCHANGED <<workflow, transaction, chat_results, ml_assessment,
                   rule_assessment, next_step, decision_result, explanation,
                   chat_messages, session_start, human_lines, result, calls>>

\* fraud_manager asks the human for a line and ends the chat or replies.
LiveHumanInput(line) ==
    /\ pc = "human"
    /\ LET received == chat_messages[Len(chat_messages)]
           reply == HumanReply(line, received)
       IN  IF reply = <<"exit">>
           THEN /\ pc' = "extract"
                /\ UNCHANGED <<chat_messages, calls>>
           ELSE /\ chat_messages' = Append(chat_messages, Response(reply, received))
                /\ calls' = IF reply = <<>>
                            THEN [calls EXCEPT !.tools = @ + Len(received.tool_calls)]
                            ELSE calls
                /\ pc' = "react"
    /\ human_lines' = Append(human_lines, line)
    /\ UNCHANGED <<workflow, transaction, chat_results, ml_assessment,
                   rule_assessment, next_step, decision_result, explanation,
                   session_start, result>>

LiveNext ==
    \/ \E tx \in Transactions : LiveStart(tx)
    \/ \E reply \in MLReplies : MLChat(reply)
    \/ \E reply \in RuleReplies : RuleChat(reply)
    \/ ParseAssessments
    \/ \E reply \in CoordinatorReplies : Coordinate(reply)
    \/ RouteApprove
    \/ RouteDecision
    \/ RouteExplanation
    \/ RouteFallback
    \/ \E reply \in DecisionReplies : Decide(reply)
    \/ \E reply \in ExplanationReplies : Explain(reply)
    \/ StartSession
    \/ \E reply \in ReactReplies : LiveReactReply(reply)
    \/ ReactGivesUp
    \/ \E line \in HumanInputs : LiveHumanInput(line)
    \/ ExtractDecision

\* Every collaborator call returns and the human answers every prompt: a
\* step that can be taken is taken.
LiveSpec == Init /\ [][LiveNext]_vars /\ WF_vars(LiveNext)

\* ------------------------------------------------------------------ claims
\* The routing table of the specification (section 4.2).
TableVerdict(tx, ml, rule) ==
    IF ~ml.is_fraud /\ ~rule.is_flagged THEN "approve_transaction"
    ELSE IF tx.is_realtime THEN "decision_agent"
    ELSE "generate_explanation"

Assessed == ml_assessment # None /\ rule_assessment # None

Suspicious == Assessed /\ (ml_assessment[1].is_fraud \/ rule_assessment[1].is_flagged)

Unsuspicious == Assessed /\ ~ml_assessment[1].is_fraud /\ ~rule_assessment[1].is_flagged

InProcess == workflow = "process_transaction"

ReturnedResult == InProcess /\ pc = "done" /\ result.kind = "return"

HasKeyword(kws, text) == \E kw \in kws : Contains(kw, Upper(text))

TerminateKeywords == {"BEENDEN", "TERMINATE", "EXIT"}
ApproveKeywords == {"GENEHMIGEN"}
DeclineKeywords == {"ABLEHNEN"}
AllKeywords == TerminateKeywords \cup ApproveKeywords \cup DeclineKeywords

\* The messages of this call's review chat.
SessionMessages ==
    IF session_start = 0 THEN {}
    ELSE {chat_messages[i] : i \in session_start .. Len(chat_messages)}

\* C1: the routing step takes exactly the branch of the table for
\* (ml.is_fraud, rule.is_flagged, is_realtime); no other outcome is reachable.
C1_RoutingFollowsTable ==
    next_step # None =>
        RouteOf(next_step[1]) =
            TableVerdict(transaction, ml_assessment[1], rule_assessment[1])

\* C2: with ml.is_fraud and rule.is_flagged both false the call returns
\* approved, explanation null, process_complete true, and invokes neither the
\* decision stage, the explanation stage nor the review chat.
C2_UnsuspiciousApproved ==
    (InProcess /\ pc = "done" /\ Unsuspicious /\ result.error # "CollaboratorError") =>
        /\ result.kind = "return"
        /\ result.final_decision = "approved"
        /\ result.explanation = None
        /\ result.process_complete
        /\ calls.decision = 0 /\ calls.explanation = 0 /\ calls.session = 0

\* C3: a real-time transaction with a suspicious assessment invokes the
\* decision stage exactly once and never starts a review chat.
C3_RealtimeDecidesOnce ==
    (InProcess /\ Suspicious /\ transaction.is_realtime) =>
        /\ calls.session = 0 /\ calls.turns = 0 /\ calls.tools = 0
        /\ (pc = "done" /\ result.error # "CollaboratorError") => calls.decision = 1

\* Some part of text is the sequence part.
Carries(text, part) ==
    \E i \in 1 .. Len(text) + 1 :
        /\ i + Len(part) - 1 <= Len(text)
        /\ SubSeq(text, i, i + Len(part) - 1) = part

\* C4: for a suspicious transaction that is not real-time, the explanation
\* stage has completed before the first turn of the review chat, and the
\* seed message of the chat carries that explanation.
C4_ExplanationBeforeSession ==
    (InProcess /\ Suspicious /\ ~transaction.is_realtime /\ calls.session > 0) =>
        /\ calls.explanation = 1
        /\ explanation # None
        /\ session_start \in 1 .. Len(chat_messages)
        /\ chat_messages[session_start].author = "seed"
        /\ chat_messages[session_start].content # None
        /\ Carries(chat_messages[session_start].content[1], explanation[1])
        /\ \A i \in 1 .. Len(chat_messages) :
               (i > session_start) => chat_messages[i].author # "seed"

C4_Witness ==
    /\ InProcess
    /\ Suspicious /\ ~transaction.is_realtime
    /\ calls.turns >= 1
    /\ explanation = Some(<<"Bitte", "ablehnen">>)

\* C5: a message of the chat holding a terminate keyword together with an
\* approval or decline keyword resolves to terminated: the reported outcome
\* is neither approved nor declined.
C5_TerminateWins ==
    (ReturnedResult /\ calls.session = 1
       /\ \E m \in SessionMessages :
             /\ m.author = "human"
             /\ HasKeyword(TerminateKeywords, m.content[1])
             /\ HasKeyword(ApproveKeywords \cup DeclineKeywords, m.content[1]))
    => result.final_decision \notin {"approved", "declined"}

\* probability and threshold lie in [0, 1] (in tenths).
InUnitRange(x) == x \in 0 .. 10

MalformedML(reply) ==
    reply.json /\ (~InUnitRange(reply.probability) \/ ~InUnitRange(reply.threshold))

\* C6: a malformed ML assessment (probability or threshold outside [0,1])
\* makes the call fail; routing, decision, explanation and review chat are
\* not invoked.
C6_MalformedMLRejected ==
    (InProcess /\ chat_results.ml # None /\ MalformedML(chat_results.ml[1])) =>
        /\ calls.coordinator = 0 /\ calls.decision = 0
        /\ calls.explanation = 0 /\ calls.session = 0
        /\ pc = "done" => result.kind = "raise"

\* A reply of the decision agent that conforms to the Decision schema.
WellFormedDecision(reply) ==
    /\ reply.json
    /\ reply.decision # None /\ reply.decision[1] \in {"approved", "declined"}
    /\ reply.confidence # None /\ InUnitRange(reply.confidence[1])
    /\ reply.reasoning # None

\* C7: a reply of the decision agent that does not conform to the Decision
\* schema is never returned as a completed result with a final decision.
C7_MalformedDecisionSurfaced ==
    (pc = "done" /\ decision_result # None
       /\ ~WellFormedDecision(decision_result[1]))
    => ~(/\ result.kind = "return"
         /\ "final_decision" \in result.fields
         /\ result.process_complete)

\* C8: on the decision path a well-formed Decision is returned unchanged:
\* final_decision is its outcome and process_complete is true.
C8_DecisionPassedThrough ==
    (pc = "done" /\ decision_result # None
       /\ WellFormedDecision(decision_result[1]))
    => /\ result.kind = "return"
       /\ result.final_decision = decision_result[1].decision[1]
       /\ result.process_complete

C8_Witness ==
    /\ InProcess
    /\ pc = "done"
    /\ decision_result # None
    /\ WellFormedDecision(decision_result[1])
    /\ decision_result[1].decision = Some("declined")
    /\ transaction.is_realtime /\ Suspicious

\* The lines the human typed that hold text.
TypedLines == {i \in DOMAIN human_lines : human_lines[i] # <<>>}

LatestTypedLine == human_lines[CHOOSE i \in TypedLines : \A j \in TypedLines : j <= i]

\* C9: the verdict comes from the latest human-authored message only: an
\* approved (declined) result means that message holds the approval
\* (decline) keyword.
C9_LatestHumanMessageDecides ==
    (ReturnedResult /\ calls.session = 1) =>
        /\ result.final_decision = "approved" =>
               /\ TypedLines # {}
               /\ HasKeyword(ApproveKeywords, LatestTypedLine)
        /\ result.final_decision = "declined" =>
               /\ TypedLines # {}
               /\ HasKeyword(DeclineKeywords, LatestTypedLine)

\* C10: when no human-authored message holds an approval, decline or
\* terminate keyword the call returns undecided with process_complete false.
C10_UndecidedWithoutVerdict ==
    (ReturnedResult /\ calls.session = 1
       /\ \A i \in DOMAIN human_lines : ~HasKeyword(AllKeywords, human_lines[i]))
    => /\ result.final_decision = "undecided"
       /\ ~result.process_complete

\* The review chat of a process_transaction call has ended and the call
\* went on to extract the decision.
ChatEnded ==
    /\ InProcess /\ pc = "done" /\ calls.session = 1
    /\ result.error # "CollaboratorError"

\* Positions of the human-authored messages of this call's review chat.
HumanMessages ==
    IF session_start = 0 THEN {}
    ELSE {i \in session_start .. Len(chat_messages) : chat_messages[i].author = "human"}

LatestHumanMessage ==
    chat_messages[CHOOSE i \in HumanMessages : \A j \in HumanMessages : j <= i]

C12_NoExceptionEscapes ==
    (InProcess /\ pc = "done") =>
        /\ result.kind = "return"
        /\ "process_complete" \in result.fields

\* The status section 4.6 gives a typed line: terminate wins over approve,
\* approve over decline.
LineStatus(line) ==
    IF HasKeyword(TerminateKeywords, line) THEN "terminated"
    ELSE IF HasKeyword(ApproveKeywords, line) THEN "approved"
    ELSE IF HasKeyword(DeclineKeywords, line) THEN "declined"
    ELSE "open"

ClosingLines == {i \in DOMAIN human_lines : LineStatus(human_lines[i]) # "open"}

\* The terminal status of the session: that of the first typed line that
\* closes it, terminated when the chat ended without such a line.
SessionStatus ==
    IF ClosingLines = {} THEN "terminated"
    ELSE LineStatus(human_lines[CHOOSE i \in ClosingLines : \A j \in ClosingLines : i <= j])

Interactive == workflow = "interactive"

\* C13: interactive_fraud_manager_session runs both assessments and then
\* the explanation stage for every transaction, never the routing step or
\* the decision stage, starts the review chat only once the explanation is
\* there, and returns the terminal status of the session.
C13_InteractiveReview ==
    Interactive =>
        /\ calls.coordinator = 0 /\ calls.decision = 0
        /\ calls.explanation > 0 => (Assessed /\ calls.ml = 1 /\ calls.rule = 1)
        /\ calls.session > 0 => (explanation # None /\ calls.explanation = 1)
        /\ (pc = "done" /\ calls.session = 1 /\ result.error # "CollaboratorError") =>
               /\ result.kind = "return"
               /\ result.final_decision = SessionStatus

\* The tool calls answered in the history, each with its result.
ToolExchanges(history) ==
    UNION { { <<history[k - 1].tool_calls[i], history[k].tool_responses[i]>> :
                i \in DOMAIN history[k].tool_responses } :
            k \in {j \in 2 .. Len(history) : history[j].author = "tool"} }

InconsistentML(reply) ==
    reply.json /\ (reply.is_fraud # (reply.probability >= reply.threshold))

\* C15: an ML assessment whose is_fraud differs from
\* (probability >= threshold) is rejected: the routing never runs on it.
C15_InconsistentMLRejected ==
    (InProcess /\ chat_results.ml # None /\ InconsistentML(chat_results.ml[1])) =>
        /\ pc \notin {"coordinate", "route", "decide", "explain", "seed", "react",
                      "human", "extract"}
        /\ next_step = None
        /\ pc = "done" => result.kind # "return"

\* One of the two assessment calls failed: its chat raised, or its reply is
\* no JSON.
AssessmentFailed ==
    \/ chat_results.ml # None /\ ~chat_results.ml[1].json
    \/ chat_results.rule # None /\ ~chat_results.rule[1].json
    \/ pc = "done" /\ result.error = "CollaboratorError" /\ chat_results.rule = None

C17_SessionsShareNoState ==
    session_start > 0 => session_start = 1

\* C18: once a human-authored message holding the approval or the decline
\* keyword has closed the session, no further turn is processed: it stays
\* the last message of the transcript.
C18_ClosedIsAbsorbing ==
    \A i \in HumanMessages :
        (/\ HasKeyword(ApproveKeywords \cup DeclineKeywords, chat_messages[i].content[1])
         /\ ~HasKeyword(TerminateKeywords, chat_messages[i].content[1]))
        => i = Len(chat_messages)

\* C19: after a message holding BEENDEN, TERMINATE or EXIT no tool call is
\* dispatched and no later turn is processed, and the chat ends only on a
\* terminate keyword.
C19_TerminateTakesEffect ==
    /\ \A i \in 1 .. Len(chat_messages) :
           (/\ session_start > 0 /\ i > session_start
            /\ chat_messages[i].author \in {"human", "react"}
            /\ IsTerminationMsg(chat_messages[i]))
           => i = Len(chat_messages)
    /\ pc = "extract" =>
           \/ HasKeyword(TerminateKeywords, human_lines[Len(human_lines)])
           \/ IsTerminationMsg(chat_messages[Len(chat_messages)])

\* C20: a review chat that ends terminated, with no approval or decline
\* typed by the human, is returned with process_complete false and never as
\* approved or declined.
C20_AbortedIsIncomplete ==
    (/\ ChatEnded /\ result.kind = "return"
     /\ \A i \in DOMAIN human_lines :
            ~HasKeyword(ApproveKeywords \cup DeclineKeywords, human_lines[i]))
    => /\ ~result.process_complete
       /\ result.final_decision \notin {"approved", "declined"}

\* The review chat of the running call has ended (the human closed it).
SessionOver == pc \in {"extract", "done"} /\ result.error # "CollaboratorError"

\* C21: when react_agent asks for k >= 1 tool calls in a turn, the chat
\* goes on or ends only after the k results were appended to the
\* transcript, in call order.
C21_ToolBatchCompleted ==
    \A i \in 1 .. Len(chat_messages) :
        (/\ session_start > 0 /\ i > session_start
         /\ chat_messages[i].tool_calls # <<>>
         /\ (i < Len(chat_messages) \/ SessionOver))
        => /\ i < Len(chat_messages)
           /\ chat_messages[i + 1].author = "tool"
           /\ chat_messages[i + 1].tool_responses = ToolResults(chat_messages[i].tool_calls)

\* C22: when the latest human-authored message of a review chat holds both
\* the approval and the decline keyword and no terminate keyword, the
\* session is resolved to approved, in process_transaction and in
\* interactive_fraud_manager_session.
C22_ApprovalBeforeDecline ==
    (/\ pc = "done" /\ calls.session = 1 /\ result.error # "CollaboratorError"
     /\ HumanMessages # {}
     /\ HasKeyword(ApproveKeywords, LatestHumanMessage.content[1])
     /\ HasKeyword(DeclineKeywords, LatestHumanMessage.content[1])
     /\ ~HasKeyword(TerminateKeywords, LatestHumanMessage.content[1]))
    => /\ result.kind = "return"
       /\ result.final_decision = "approved"

Stages == {"ml", "rule", "coordinator", "decision", "explanation", "session"}

\* C23: in a call of process_transaction every stage runs at most once and
\* in a fixed order: both assessments, then the routing step, then nothing
\* more (approve), or one decision call, or one explanation call followed
\* by one review chat; the decision stage and the review chat never both
\* run, and no assessment call is repeated.
C23_StagesOnceInOrder ==
    InProcess =>
        /\ \A stage \in Stages : calls[stage] <= 1
        /\ calls.rule = 1 => calls.ml = 1
        /\ calls.coordinator = 1 => (calls.ml = 1 /\ calls.rule = 1 /\ Assessed)
        /\ calls.decision = 1 =>
               (calls.coordinator = 1 /\ RouteOf(next_step[1]) = "decision_agent")
        /\ calls.explanation = 1 =>
               (calls.coordinator = 1 /\ RouteOf(next_step[1]) = "generate_explanation")
        /\ calls.session = 1 => (calls.explanation = 1 /\ explanation # None)
        /\ ~(calls.decision = 1 /\ (calls.explanation = 1 \/ calls.session = 1))
        /\ ReturnedResult =>
               /\ calls.ml = 1 /\ calls.rule = 1 /\ calls.coordinator = 1
               /\ RouteOf(next_step[1]) \in {"approve_transaction", "fallback"} =>
                      (calls.decision = 0 /\ calls.explanation = 0 /\ calls.session = 0)
               /\ RouteOf(next_step[1]) = "decision_agent" =>
                      (calls.decision = 1 /\ calls.explanation = 0 /\ calls.session = 0)
               /\ RouteOf(next_step[1]) = "generate_explanation" =>
                      (calls.decision = 0 /\ calls.explanation = 1 /\ calls.session = 1)

C23_Witness ==
    /\ ReturnedResult
    /\ RouteOf(next_step[1]) = "generate_explanation"
    /\ calls.explanation = 1 /\ calls.session = 1 /\ calls.turns = 2

\* C24: in every value process_transaction returns, process_complete is
\* true exactly when final_decision is approved or declined; a result that
\* is undecided or carries an error has process_complete false.
C24_CompleteIffDecided ==
    ReturnedResult =>
        /\ result.process_complete <=>
               /\ "final_decision" \in result.fields
               /\ result.final_decision \in {"approved", "declined"}
        /\ (result.final_decision = "undecided" \/ "error" \in result.fields)
               => ~result.process_complete

\* The human has entered an approval, decline or terminate keyword in this
\* call's review chat.
KeywordTyped ==
    \E i \in DOMAIN human_lines : HasKeyword(AllKeywords, human_lines[i])

\* Once the human has entered a keyword, the review chat closes and the
\* call returns a result.
ReviewReturns == (InProcess /\ calls.session = 1 /\ KeywordTyped) ~> ReturnedResult

\* The review chat ends only through a line of the human: the typed exit,
\* or the empty line on a termination message.
EndedByHuman ==
    (InProcess /\ pc = "extract") =>
        /\ human_lines # <<>>
        /\ chat_messages[Len(chat_messages)].author = "react"
        /\ HumanReply(human_lines[Len(human_lines)],
                      chat_messages[Len(chat_messages)]) = <<"exit">>

\* C25: when every collaborator and tool call returns and the human
\* eventually enters an approval, decline or terminate keyword, a call on
\* the generate_explanation path eventually closes the review chat and
\* returns a result, and no turn limit or timeout of the chat ends it
\* before that.
C25_ReviewTerminatesUnlimited == ReviewReturns /\ []EndedByHuman

====
